---- MODULE Spec2Model ----
(***************************************************************************)
(* Policy Response Engine (src/policies/incentive_policies.py), Pareto     *)
(* Dominance Analyzer (src/utils.py) and figure persistence                *)
(* (src/utils/helpers.py) of the water-scarcity simulation.                *)
(*                                                                         *)
(* numpy float64 values are modelled exactly: a finite value is a sign and *)
(* a magnitude counted in units of 2^-FracBits, held in three limbs of     *)
(* LimbBits bits, and every arithmetic result is rounded to Precision      *)
(* significant bits, ties to even, as IEEE-754 binary64 does.              *)
(***************************************************************************)
EXTENDS Integers, Sequences, FiniteSets, TLC

\* ---------------------------------------------------------------- bounds
MaxActors == 2
MaxPoints == 3
MaxCells == 6
MaxCost == 2
MaxDepth == 3
MaxSaves == 2

\* ------------------------------------------------------ float64 arithmetic
Precision == 53
FracBits == 61
LimbBits == 22
Base == 2 ^ LimbBits

MagZero == <<0, 0, 0>>

\* carry propagation over the three limbs
Norm(a, b, c) ==
    LET c0 == a \div Base
        l0 == a % Base
        c1 == (b + c0) \div Base
        l1 == (b + c0) % Base
    IN  <<l0, l1, c + c1>>

MagAdd(x, y) == Norm(x[1] + y[1], x[2] + y[2], x[3] + y[3])

MagLess(x, y) ==
    \/ x[3] < y[3]
    \/ x[3] = y[3] /\ x[2] < y[2]
    \/ x[3] = y[3] /\ x[2] = y[2] /\ x[1] < y[1]

\* x - y for x >= y
MagSub(x, y) ==
    LET b0 == IF x[1] < y[1] THEN 1 ELSE 0
        l0 == x[1] - y[1] + b0 * Base
        b1 == IF x[2] - b0 < y[2] THEN 1 ELSE 0
        l1 == x[2] - b0 - y[2] + b1 * Base
    IN  <<l0, l1, x[3] - b1 - y[3]>>

MagMul5(x) == Norm(5 * x[1], 5 * x[2], 5 * x[3])

\* number of significant bits of a natural below 2^(LimbBits + 4)
Bits(n) == CHOOSE k \in 0..(LimbBits + 4) :
               /\ n < 2 ^ k
               /\ k > 0 => n >= 2 ^ (k - 1)

BitLen(x) ==
    IF x[3] > 0 THEN 2 * LimbBits + Bits(x[3])
    ELSE IF x[2] > 0 THEN LimbBits + Bits(x[2])
    ELSE Bits(x[1])

\* round an exact magnitude to Precision significant bits, ties to even
RoundMag(x) ==
    LET shift == BitLen(x) - Precision
    IN  IF shift <= 0 THEN x
        ELSE LET unit == 2 ^ shift
                 r    == x[1] % unit
                 odd  == (x[1] \div unit) % 2 = 1
                 down == <<x[1] - r, x[2], x[3]>>
                 up   == \/ 2 * r > unit
                         \/ 2 * r = unit /\ odd
             IN  IF up THEN MagAdd(down, <<unit, 0, 0>>) ELSE down

Fin(s, m) == [k |-> "fin", s |-> s, m |-> m]
NaN == [k |-> "nan", s |-> 0, m |-> MagZero]
Inf(s) == [k |-> "inf", s |-> s, m |-> MagZero]

FromInt(n) ==
    IF n >= 0 THEN Fin(0, <<0, 0, n * 2 ^ (FracBits - 2 * LimbBits)>>)
    ELSE Fin(1, <<0, 0, (0 - n) * 2 ^ (FracBits - 2 * LimbBits)>>)

Zero == FromInt(0)
One == FromInt(1)
Half == Fin(0, <<0, 0, 2 ^ (FracBits - 2 * LimbBits - 1)>>)
\* 0.003 = 0x189374BC6A7EFA * 2^-61 and 0.7 = 0x16666666666666 * 2^-53
F0003 == Fin(0, <<2785018, 905969, 393>>)
F07 == Fin(0, <<2516480, 1677721, 91750>>)

\* an element of an int64 array, and the integer it holds
Int64(n) == [k |-> "int", s |-> IF n < 0 THEN 1 ELSE 0,
             m |-> <<IF n < 0 THEN 0 - n ELSE n, 0, 0>>]
IntOf(x) == IF x.s = 1 THEN 0 - x.m[1] ELSE x.m[1]

IsFinite(x) == x.k = "fin"

FNeg(x) == IF x.k = "nan" THEN x ELSE [x EXCEPT !.s = 1 - x.s]

\* x - y in float64
FSub(x, y) ==
    IF x.k = "nan" \/ y.k = "nan" THEN NaN
    ELSE IF x.k = "inf" THEN (IF y.k = "inf" /\ y.s = x.s THEN NaN ELSE x)
    ELSE IF y.k = "inf" THEN Inf(1 - y.s)
    ELSE IF x.s # y.s THEN Fin(x.s, RoundMag(MagAdd(x.m, y.m)))
    ELSE IF x.m = y.m THEN Zero
    ELSE IF MagLess(y.m, x.m) THEN Fin(x.s, RoundMag(MagSub(x.m, y.m)))
    ELSE Fin(1 - x.s, RoundMag(MagSub(y.m, x.m)))

\* x * 5 in float64
FMul5(x) ==
    IF x.k = "fin" THEN Fin(x.s, RoundMag(MagMul5(x.m))) ELSE x

\* the comparisons ==, <=, < of float64: false on NaN, -0.0 == 0.0
FEq(x, y) ==
    /\ x.k # "nan" /\ y.k # "nan"
    /\ \/ x.k = "fin" /\ y.k = "fin" /\ x.m = MagZero /\ y.m = MagZero
       \/ x = y

FLt(x, y) ==
    /\ x.k # "nan" /\ y.k # "nan"
    /\ ~FEq(x, y)
    /\ \/ x.k = "inf" /\ x.s = 1
       \/ y.k = "inf" /\ y.s = 0
       \/ /\ x.k = "fin" /\ y.k = "fin"
          /\ \/ x.s = 1 /\ y.s = 0
             \/ x.s = 0 /\ y.s = 0 /\ MagLess(x.m, y.m)
             \/ x.s = 1 /\ y.s = 1 /\ MagLess(y.m, x.m)

FLeq(x, y) == FLt(x, y) \/ FEq(x, y)

\* ------------------------------------------------------- policy functions
DOE_default == 15
DCR_default == 10

FloatArray(data) == [dtype |-> "float64", data |-> data]
IntArray(data) == [dtype |-> "int64", data |-> data]

\* ndarray.astype(float): integers are converted, float64 is copied
astype_float(a) ==
    [i \in 1..Len(a.data) |->
        IF a.dtype = "int64" THEN FromInt(IntOf(a.data[i])) ELSE a.data[i]]

np_zeros(n) == [i \in 1..n |-> Zero]

\* mixed_policy with the offset of fine_policy
mixed_policy_FineOffset(self, actions, actors_priority, avg_incomes, water_pump, avg_pump, is_crisis, water_flows, quota, DOE, DCR) ==
    LET f == astype_float(actions)
        a == [i \in 1..Len(f) |-> FSub(f[i], One)]
    IN  [i \in 1..Len(a) |-> FMul5(FNeg(a[i]))]

\* mixed_policy that fines during a crisis
mixed_policy_Crisis(self, actions, actors_priority, avg_incomes, water_pump, avg_pump, is_crisis, water_flows, quota, DOE, DCR) ==
    LET f == astype_float(actions)
        a == [i \in 1..Len(f) |->
                 FSub(f[i], IF is_crisis THEN One ELSE Half)]
    IN  [i \in 1..Len(a) |-> FMul5(FNeg(a[i]))]

mixed_policy(self, actions, actors_priority, avg_incomes, water_pump, avg_pump, is_crisis, water_flows, quota, DOE, DCR) ==
    LET f == astype_float(actions)
        a == [i \in 1..Len(f) |-> FSub(f[i], Half)]
    IN  [i \in 1..Len(a) |-> FMul5(FNeg(a[i]))]

\* fine_policy without its offset
fine_policy_NoOffset(self, actions, actors_priority, avg_incomes, water_pump, avg_pump, is_crisis, water_flows, quota, DOE, DCR) ==
    LET a == astype_float(actions)
    IN  [i \in 1..Len(a) |-> FMul5(FNeg(a[i]))]

fine_policy(self, actions, actors_priority, avg_incomes, water_pump, avg_pump, is_crisis, water_flows, quota, DOE, DCR) ==
    LET f == astype_float(actions)
        a == [i \in 1..Len(f) |-> FSub(f[i], One)]
    IN  [i \in 1..Len(a) |-> FMul5(FNeg(a[i]))]

subvention_policy(self, actions, actors_priority, avg_incomes, water_pump, avg_pump, is_crisis, water_flows, quota, DOE, DCR) ==
    LET a == astype_float(actions)
    IN  [i \in 1..Len(a) |-> FMul5(FNeg(a[i]))]

\* no_policy sized by the action vector
no_policy_ActionLength(self, actions, actors_priority, avg_incomes, water_pump, avg_pump, is_crisis, water_flows, quota, DOE, DCR) ==
    np_zeros(Len(actions.data))

no_policy(self, actions, actors_priority, avg_incomes, water_pump, avg_pump, is_crisis, water_flows, quota, DOE, DCR) ==
    np_zeros(self.nb_actors)

\* ------------------------------------------------------------ call inputs
FiniteActions == {Zero, Half, One, F0003, F07}
NonFiniteActions == {NaN, Inf(0)}

SeqsUpTo(S, n) == UNION {[1..k -> S] : k \in 0..n}

ActionArrays(values) ==
    {FloatArray(d) : d \in SeqsUpTo(values, MaxActors)}
        \cup {IntArray(d) : d \in SeqsUpTo({Int64(0), Int64(1)}, MaxActors)}

\* the contextual arguments of one call: the five per-actor vectors hold n
\* entries, and alt switches every value to a second one
Context(n, alt) ==
    LET v == IF alt THEN 1 ELSE 0
    IN  [actors_priority |-> [i \in 1..n |-> v],
         avg_incomes     |-> [i \in 1..n |-> v],
         water_pump      |-> [i \in 1..n |-> v],
         avg_pump        |-> [i \in 1..n |-> v],
         is_crisis       |-> alt,
         water_flows     |-> v,
         quota           |-> [i \in 1..n |-> v],
         DOE             |-> DOE_default + v,
         DCR             |-> DCR_default + v]

Contexts == {Context(n, alt) : n \in 0..MaxActors, alt \in BOOLEAN}
Selves == {[nb_actors |-> n] : n \in 0..MaxActors}

Policies == {"no_policy", "subvention_policy", "fine_policy", "mixed_policy"}

Evaluate(policy, self, actions, c) ==
    CASE policy = "no_policy" ->
            no_policy(self, actions, c.actors_priority, c.avg_incomes,
                      c.water_pump, c.avg_pump, c.is_crisis, c.water_flows,
                      c.quota, c.DOE, c.DCR)
      [] policy = "subvention_policy" ->
            subvention_policy(self, actions, c.actors_priority, c.avg_incomes,
                      c.water_pump, c.avg_pump, c.is_crisis, c.water_flows,
                      c.quota, c.DOE, c.DCR)
      [] policy = "fine_policy" ->
            fine_policy(self, actions, c.actors_priority, c.avg_incomes,
                      c.water_pump, c.avg_pump, c.is_crisis, c.water_flows,
                      c.quota, c.DOE, c.DCR)
      [] policy = "mixed_policy" ->
            mixed_policy(self, actions, c.actors_priority, c.avg_incomes,
                      c.water_pump, c.avg_pump, c.is_crisis, c.water_flows,
                      c.quota, c.DOE, c.DCR)

\* ------------------------------------------------------------------ state
VARIABLES
    call,       \* the latest policy call: arguments, outcome and result
    prev,       \* the policy call before it
    regimes,    \* one timestep: the three incentive regimes on one vector
    costs,      \* cost matrix handed to is_pareto_efficient
    mask,       \* the efficiency mask returned for costs
    perm,       \* a permutation of the rows of costs
    pmask,      \* the mask returned for the permuted matrix
    pareto,     \* outcome of the is_pareto_efficient calls
    dirs,       \* directories of the file system
    files,      \* files of the file system
    save,       \* the latest save_or_create call: path and outcome
    saves       \* number of save_or_create calls made

vars == <<call, prev, regimes, costs, mask, perm, pmask, pareto, dirs, files, save,
          saves>>

NoCall == [policy |-> "none", self |-> [nb_actors |-> 0],
           actions |-> FloatArray(<<>>), ctx |-> Context(0, FALSE),
           outcome |-> "none", result |-> <<>>]

\* a policy returns its value: nothing in the four bodies raises
Called(policy, self, actions, c) ==
    [policy |-> policy, self |-> self, actions |-> actions, ctx |-> c,
     outcome |-> "returned", result |-> Evaluate(policy, self, actions, c)]

paretoVars == <<costs, mask, perm, pmask, pareto>>
policyVars == <<call, prev, regimes>>
fsVars == <<dirs, files, save, saves>>

NoRegimes == [done |-> FALSE, actions |-> FloatArray(<<>>), fine |-> <<>>,
              mixed |-> <<>>, subvention |-> <<>>]

PolicyCallOn(policy, arrays) ==
    /\ call.policy = "none"
    /\ ~regimes.done
    /\ \E self \in Selves, actions \in arrays, c \in Contexts :
           call' = Called(policy, self, actions, c)
    /\ UNCHANGED <<prev, regimes, paretoVars, fsVars>>

MixedCall == PolicyCallOn("mixed_policy", ActionArrays(FiniteActions))
FineCall == PolicyCallOn("fine_policy", ActionArrays(FiniteActions))
SubventionCall == PolicyCallOn("subvention_policy", ActionArrays(FiniteActions))
NoPolicyCall == PolicyCallOn("no_policy", ActionArrays(FiniteActions))

\* the same policy is called once more on the same action vector, every
\* other argument chosen afresh
RepeatCall ==
    /\ call.policy # "none"
    /\ prev.policy = "none"
    /\ prev' = call
    /\ \E self \in Selves, c \in Contexts :
           call' = Called(call.policy, self, call.actions, c)
    /\ UNCHANGED <<regimes, paretoVars, fsVars>>

\* the simulation evaluates the three incentive regimes of one timestep on
\* the same action vector
RegimesCall ==
    /\ call.policy = "none"
    /\ ~regimes.done
    /\ \E self \in Selves, actions \in ActionArrays(FiniteActions),
          c \in Contexts :
           regimes' =
               [done       |-> TRUE,
                actions    |-> actions,
                fine       |-> Evaluate("fine_policy", self, actions, c),
                mixed      |-> Evaluate("mixed_policy", self, actions, c),
                subvention |-> Evaluate("subvention_policy", self, actions, c)]
    /\ UNCHANGED <<call, prev, paretoVars, fsVars>>


\* ------------------------------------------------- Pareto dominance filter
\* np.any(np.any(costs <= c, axis=1) & np.any(costs < c, axis=1))
AnyDominates_AnyColumn(costs_, c) ==
    \E j \in 1..Len(costs_) :
        /\ \E col \in 1..Len(c) : FLeq(costs_[j][col], c[col])
        /\ \E col \in 1..Len(c) : FLt(costs_[j][col], c[col])

\* np.any(np.all(costs <= c, axis=1) & np.any(costs <= c, axis=1))
AnyDominates_NonStrict(costs_, c) ==
    \E j \in 1..Len(costs_) :
        /\ \A col \in 1..Len(c) : FLeq(costs_[j][col], c[col])
        /\ \E col \in 1..Len(c) : FLeq(costs_[j][col], c[col])

\* np.any(np.all(costs <= c, axis=1) & np.any(costs < c, axis=1))
AnyDominates(costs_, c) ==
    \E j \in 1..Len(costs_) :
        /\ \A col \in 1..Len(c) : FLeq(costs_[j][col], c[col])
        /\ \E col \in 1..Len(c) : FLt(costs_[j][col], c[col])

\* the body of "for i, c in enumerate(costs)" from row i on
RECURSIVE EfficiencyLoop(_, _, _)
EfficiencyLoop(costs_, is_efficient, i) ==
    IF i > Len(costs_) THEN is_efficient
    ELSE EfficiencyLoop(costs_,
             [is_efficient EXCEPT ![i] = ~AnyDominates(costs_, costs_[i])],
             i + 1)

\* each row compared with the rows up to it only
is_pareto_efficient_Sliced(costs_) ==
    [i \in 1..Len(costs_) |-> ~AnyDominates(SubSeq(costs_, 1, i), costs_[i])]

is_pareto_efficient(costs_) ==
    EfficiencyLoop(costs_, [i \in 1..Len(costs_) |-> TRUE], 1)

FiniteCosts == {FromInt(n) : n \in 0..MaxCost}
NonFiniteCosts == {NaN, Inf(0), Inf(1)}

\* the shapes (n_points, n_objectives) of at most MaxCells entries
Shapes == {sh \in (1..MaxPoints) \X (1..MaxCells) : sh[1] * sh[2] <= MaxCells}

Matrices(values) ==
    UNION {[1..sh[1] -> [1..sh[2] -> values]] : sh \in Shapes}

\* finite matrices with one entry replaced by one of values
WithEntryFrom(values) ==
    UNION {{[c EXCEPT ![i][col] = x] :
                i \in 1..Len(c), col \in 1..Len(c[1]), x \in values} :
           c \in Matrices(FiniteCosts)}

RowOrders(n) == {p \in [1..n -> 1..n] : \A i, j \in 1..n : p[i] = p[j] => i = j}

\* row i of the permuted matrix is row p[i] of the matrix
Permute(rows, p) == [i \in 1..Len(rows) |-> rows[p[i]]]

ParetoCallOn(matrices) ==
    /\ pareto = "idle"
    /\ \E c \in matrices :
           /\ costs' = c
           /\ mask' = is_pareto_efficient(c)
    /\ pareto' = "returned"
    /\ UNCHANGED <<perm, pmask, policyVars, fsVars>>

ParetoCall == ParetoCallOn(Matrices(FiniteCosts))

\* the analyzer is run again on the rows of costs in another order
PermutedCall ==
    /\ pareto = "returned"
    /\ \E p \in RowOrders(Len(costs)) :
           /\ perm' = p
           /\ pmask' = is_pareto_efficient(Permute(costs, p))
    /\ pareto' = "permuted"
    /\ UNCHANGED <<costs, mask, policyVars, fsVars>>

\* ------------------------------------------------------ figure persistence
Names == {"out", "fig"}

\* a relative path is the sequence of its components; <<>> is the string ""
Paths == UNION {[1..k -> Names] : k \in 1..MaxDepth}

\* os.path.dirname: everything before the last separator
os_path_dirname(path) == SubSeq(path, 1, Len(path) - 1)

\* os.path.exists: stat of the empty string fails
os_path_exists(path, ds, fs) == path # <<>> /\ (path \in ds \/ path \in fs)

Prefixes(path) == {SubSeq(path, 1, k) : k \in 1..Len(path)}

\* os.makedirs(path): the error it raises, or "ok"
os_makedirs_error(path, ds, fs) ==
    IF path = <<>> THEN "FileNotFoundError"
    ELSE IF path \in ds \/ path \in fs THEN "FileExistsError"
    ELSE IF Prefixes(path) \cap fs # {} THEN "NotADirectoryError"
    ELSE "ok"

\* Figure.savefig(path): the error of opening path for writing, or "ok"
savefig_error(path, ds, fs) ==
    IF path \in ds THEN "IsADirectoryError"
    ELSE IF Prefixes(os_path_dirname(path)) \cap fs # {}
        THEN "NotADirectoryError"
    ELSE IF os_path_dirname(path) # <<>> /\ os_path_dirname(path) \notin ds
        THEN "FileNotFoundError"
    ELSE "ok"

save_or_create(save_path) ==
    LET d    == os_path_dirname(save_path)
        made == ~os_path_exists(d, dirs, files)
        e1   == IF made THEN os_makedirs_error(d, dirs, files) ELSE "ok"
        ds   == IF made /\ e1 = "ok" THEN dirs \cup Prefixes(d) ELSE dirs
        e2   == IF e1 = "ok" THEN savefig_error(save_path, ds, files) ELSE e1
    IN  /\ saves < MaxSaves
        /\ saves' = saves + 1
        /\ dirs' = ds
        /\ files' = IF e2 = "ok" THEN files \cup {save_path} ELSE files
        /\ save' = [path |-> save_path,
                    outcome |-> IF e2 = "ok" THEN "returned" ELSE e2]
        /\ UNCHANGED <<policyVars, paretoVars>>

SaveOrCreate == \E save_path \in Paths : save_or_create(save_path)

\* ---------------------------------------------------------- specifications
Init ==
    /\ call = NoCall
    /\ prev = NoCall
    /\ regimes = NoRegimes
    /\ costs = <<>>
    /\ mask = <<>>
    /\ perm = <<>>
    /\ pmask = <<>>
    /\ pareto = "idle"
    /\ dirs = {}
    /\ files = {}
    /\ save = [path |-> <<>>, outcome |-> "none"]
    /\ saves = 0

NextPolicy ==
    \/ MixedCall
    \/ FineCall
    \/ SubventionCall
    \/ NoPolicyCall
    \/ RepeatCall
    \/ RegimesCall

SpecPolicy == Init /\ [][NextPolicy]_vars

NextPareto ==
    \/ ParetoCall
    \/ PermutedCall

SpecPareto == Init /\ [][NextPareto]_vars

NextSave == SaveOrCreate

SpecSave == Init /\ [][NextSave]_vars

\* calls whose cost matrix or action vector holds NaN or an infinity
NonFiniteArrays ==
    {a \in ActionArrays(FiniteActions \cup NonFiniteActions) :
        \E i \in 1..Len(a.data) : a.data[i] \in NonFiniteActions}

\* one call is made in a behaviour, to a policy or to the analyzer
NonFinitePolicyCall ==
    /\ pareto = "idle"
    /\ \E policy \in Policies : PolicyCallOn(policy, NonFiniteArrays)

NonFiniteParetoCall ==
    /\ call.policy = "none"
    /\ ParetoCallOn(WithEntryFrom(NonFiniteCosts))

NextNonFinite ==
    \/ NonFinitePolicyCall
    \/ NonFiniteParetoCall

SpecNonFinite == Init /\ [][NextNonFinite]_vars

\* ==================================================================== claims
\* row j dominates row i of costs: no worse in every column, better in one
Dominates(rows, j, i) ==
    /\ \A col \in 1..Len(rows[i]) : FLeq(rows[j][col], rows[i][col])
    /\ \E col \in 1..Len(rows[i]) : FLt(rows[j][col], rows[i][col])

AllFinite(rows) ==
    \A i \in 1..Len(rows) : \A col \in 1..Len(rows[i]) : IsFinite(rows[i][col])

\* C1: on a finite cost matrix is_pareto_efficient returns one boolean per
\* row, and entry i is TRUE exactly when no other row j # i dominates row i.
C1_MaskIsNonDominated ==
    (pareto # "idle" /\ AllFinite(costs)) =>
        /\ Len(mask) = Len(costs)
        /\ \A i \in 1..Len(costs) :
               mask[i] <=> ~\E j \in (1..Len(costs)) \ {i} : Dominates(costs, j, i)

\* a returned mask with a dominated row and two equal efficient rows
C1_Witness ==
    /\ pareto = "returned"
    /\ \E i \in 1..Len(costs) : ~mask[i]
    /\ \E i, j \in 1..Len(costs) : i # j /\ costs[i] = costs[j] /\ mask[i]

\* the float64 value of an element of the action vector
ActionValue(a, i) == astype_float(a)[i]

Affine(policy) == policy \in {"subvention_policy", "fine_policy", "mixed_policy"}

\* the right-hand sides -5*a, 5*(1-a) and 5*(0.5-a), evaluated in float64
Expected(policy, x) ==
    CASE policy = "subvention_policy" -> FNeg(FMul5(x))
      [] policy = "fine_policy" -> FMul5(FSub(One, x))
      [] policy = "mixed_policy" -> FMul5(FSub(Half, x))

\* C2: subvention_policy(a) == -5*a, fine_policy(a) == 5*(1-a) and
\* mixed_policy(a) == 5*(0.5-a) elementwise, the result as long as a and in
\* its order.
C2_AffineFamily ==
    Affine(call.policy) =>
        /\ Len(call.result) = Len(call.actions.data)
        /\ \A i \in 1..Len(call.result) :
               FEq(call.result[i],
                   Expected(call.policy, ActionValue(call.actions, i)))

\* mixed_policy called on a vector of two different actions, one of which
\* (0.7) gives a rounded product
C2_Witness ==
    /\ call.policy = "mixed_policy"
    /\ Len(call.actions.data) >= 2
    /\ call.actions.data[1] = F07
    /\ call.actions.data[2] = Zero
    /\ call.result[1] # call.result[2]

IsZeros(v, n) == Len(v) = n /\ \A i \in 1..Len(v) : FEq(v[i], Zero)

C4_PermutationInvariance ==
    pareto = "permuted" => pmask = Permute(mask, perm)

\* rows moved by the permutation, with both flags present in the mask
C4_Witness ==
    /\ pareto = "permuted"
    /\ \E i \in 1..Len(perm) : perm[i] # i /\ mask[i] # mask[perm[i]]
    /\ pmask # mask

\* fine(a) - mixed(a) and mixed(a) - subvention(a), evaluated in float64
FineMinusMixed(i) == FSub(regimes.fine[i], regimes.mixed[i])
MixedMinusSubvention(i) == FSub(regimes.mixed[i], regimes.subvention[i])

\* C5 as stated: fine(a) - mixed(a) == mixed(a) - subvention(a) elementwise.
C5_EquallySpaced ==
    regimes.done =>
        \A i \in 1..Len(regimes.actions.data) :
            FEq(FineMinusMixed(i), MixedMinusSubvention(i))

\* 2^-48 in units of 2^-FracBits
Tolerance == <<2 ^ (FracBits - 48), 0, 0>>

\* |x - y| <= 2^-48 for finite x and y, computed exactly
Near(x, y) ==
    /\ x.k = "fin" /\ y.k = "fin"
    /\ LET d == IF x.s # y.s THEN MagAdd(x.m, y.m)
                ELSE IF MagLess(x.m, y.m) THEN MagSub(y.m, x.m)
                ELSE MagSub(x.m, y.m)
       IN  ~MagLess(Tolerance, d)

InUnitInterval(a) ==
    \A i \in 1..Len(a.data) :
        FLeq(Zero, ActionValue(a, i)) /\ FLeq(ActionValue(a, i), One)

\* C5 amended: for an action vector a with entries in [0,1] the three
\* results have the length of a, and elementwise fine(a) - mixed(a) and
\* mixed(a) - subvention(a) differ by at most 2^-48 (they are equal up to
\* float64 rounding).
C5_EquallySpacedUpToRounding ==
    (regimes.done /\ InUnitInterval(regimes.actions)) =>
        /\ Len(regimes.fine) = Len(regimes.actions.data)
        /\ Len(regimes.mixed) = Len(regimes.actions.data)
        /\ Len(regimes.subvention) = Len(regimes.actions.data)
        /\ \A i \in 1..Len(regimes.actions.data) :
               Near(FineMinusMixed(i), MixedMinusSubvention(i))

\* the regimes evaluated on an action whose two differences are not equal
C5_Witness ==
    /\ regimes.done
    /\ \E i \in 1..Len(regimes.actions.data) :
           /\ regimes.actions.data[i] = F0003
           /\ ~FEq(FineMinusMixed(i), MixedMinusSubvention(i))

PerActorLengths(c) ==
    {Len(c.actors_priority), Len(c.avg_incomes), Len(c.water_pump),
     Len(c.avg_pump), Len(c.quota)}

\* C6: a policy call whose action vector and per-actor contextual vectors
\* differ in length ends in a ShapeMismatch error and returns no adjustment.
C6_ShapeMismatchRaised ==
    (call.policy # "none"
        /\ PerActorLengths(call.ctx) # {Len(call.actions.data)}) =>
        call.outcome = "ShapeMismatch" /\ call.result = <<>>

HasNonFinite(v) == \E i \in 1..Len(v) : ~IsFinite(v[i])

\* C7: a call of is_pareto_efficient on a cost matrix, or of a policy on an
\* action vector, that holds NaN or an infinity ends in an InvalidInput error
\* and returns no mask and no adjustment.
C7_InvalidInputRaised ==
    /\ (call.policy # "none" /\ HasNonFinite(astype_float(call.actions))) =>
           call.outcome = "InvalidInput" /\ call.result = <<>>
    /\ (pareto # "idle" /\ ~AllFinite(costs)) =>
           pareto = "InvalidInput" /\ mask = <<>>

C9_SaveAlwaysSucceeds ==
    save.outcome # "none" =>
        /\ save.outcome = "returned"
        /\ os_path_dirname(save.path) # <<>> =>
               os_path_dirname(save.path) \in dirs
        /\ save.path \in files

\* C10: on a finite cost matrix the mask holds at least one TRUE, and every
\* row flagged FALSE is dominated by a row flagged TRUE.
C10_FrontNonEmptyAndCovering ==
    (pareto # "idle" /\ AllFinite(costs)) =>
        /\ \E i \in 1..Len(mask) : mask[i]
        /\ \A i \in 1..Len(mask) :
               ~mask[i] => \E j \in 1..Len(mask) :
                               mask[j] /\ Dominates(costs, j, i)

\* a row dominated by a row that is itself dominated
C10_Witness ==
    /\ pareto = "returned"
    /\ \E i, j \in 1..Len(costs) :
           ~mask[i] /\ ~mask[j] /\ Dominates(costs, j, i)

====
